---- MODULE Spec2Model ----
(***************************************************************************)
(* Model of the TOTP application client of the Flipper Zero authenticator  *)
(* companion (src/src/lib/totp-client/totp-client.ts).                     *)
(*                                                                         *)
(* One client instance (TotpAppClient) is modelled, with its private       *)
(* field #serialPort, the serial ports it has created, the events it       *)
(* emits, and the asynchronous calls made on it.  Every await of the       *)
(* source is a position (pc) of the calling task; the code between two     *)
(* awaits runs without interruption and is one action.                     *)
(*                                                                         *)
(* Text is a sequence of symbols.  The sentinels of constants.ts (end of   *)
(* command, PIN request, cancelled, command not found) are one symbol      *)
(* each; "CR" and "LF" are the two line terminator characters, "SP" a      *)
(* space, "ESC" one terminal control command, "a" and "b" word characters. *)
(***************************************************************************)
EXTENDS Integers, Sequences, FiniteSets, TLC

\* ------------------------------------------------------------------ bounds
NTasks == 2
MaxPorts == 2
MaxFail == 2
MaxRetries == 2
MaxEndpoints == 3

Tasks == 1..NTasks
PortIds == 1..MaxPorts

\* --------------------------------------------------------------- constants
FlipperCliEndOfCommand == "END"
TotpAskForPin == "PIN"
TotpCommandCancelled == "CANCEL"
FlipperCliCommandNotFound == "NOTFOUND"
FlipperVendorId == "v-flipper"
FlipperProductId == "p-flipper"

LineTerminators == {"CR", "LF"}
WhiteSpace == {"CR", "LF", "SP"}
WordChars == {"a", "b"}

\* The default options of #executeCommand.
executeCommandDefaultOptions ==
  [skipFirstLine |-> TRUE, trimCommandEndSignature |-> TRUE,
   trimEmptyLines |-> TRUE, trimTerminalControlCommands |-> TRUE]

\* Options a caller of #executeCommand passes: the defaults, and the defaults
\* with one flag switched off.
OptionSets ==
  { executeCommandDefaultOptions,
    [executeCommandDefaultOptions EXCEPT !.skipFirstLine = FALSE],
    [executeCommandDefaultOptions EXCEPT !.trimCommandEndSignature = FALSE],
    [executeCommandDefaultOptions EXCEPT !.trimEmptyLines = FALSE],
    [executeCommandDefaultOptions EXCEPT !.trimTerminalControlCommands = FALSE] }

\* --------------------------------------------------- the serial environment
\* Enumerated serial endpoints (SerialPort.list()).
EpOther == [path |-> "COM1", vendorId |-> "v-flipper", productId |-> "p-other"]
EpFlipperA == [path |-> "COM3", vendorId |-> "v-flipper", productId |-> "p-flipper"]
EpFlipperB == [path |-> "COM4", vendorId |-> "v-flipper", productId |-> "p-flipper"]
EpSerial == [path |-> "COM2", vendorId |-> "v-other", productId |-> "p-flipper"]
EndpointLists == { <<EpOther>>, <<EpOther, EpFlipperA>>, <<EpFlipperB, EpFlipperA>> }

\* Every list of at most MaxEndpoints endpoints.
EndpointKinds == {EpOther, EpSerial, EpFlipperA, EpFlipperB}
AllEndpointLists == UNION { [1..n -> EndpointKinds] : n \in 0..MaxEndpoints }

\* What the device sends after a command, up to and including the first
\* symbol the detection pattern of #executeCommand matches.
RespNotFound == <<"NOTFOUND", "CR", "LF", "END">>
RespTable == <<"a", "CR", "LF", "CR", "LF", "b", "CR", "LF", "END">>
RespErased == <<"ESC", "a", "SP", "b", "CR", "LF", "END">>
RespEmpty == <<"END">>
RespPin == <<"PIN">>
RespCancelled == <<"CR", "LF", "CANCEL">>
RespList == <<"a", "CR", "LF", "b", "CR", "LF", "b", "a", "CR", "LF", "END">>
Responses == {RespNotFound, RespTable, RespErased, RespEmpty, RespPin, RespCancelled}
\* The listing command is answered with a table (RespTable has a header and a
\* separator line and no row, RespList has one row) or with no output.
ListResponses == {RespNotFound, RespTable, RespList, RespEmpty, RespPin, RespCancelled}
ResponsesTo(o) == IF o = "listTokens" THEN ListResponses ELSE Responses

\* ------------------------------------------------------------------- state
VARIABLES
  serialPort,   \* this.#serialPort: 0 (null) or the id of the held port
  ports,        \* ids of the SerialPort objects that are open
  observed,     \* ids of the open ports carrying the 'close' listener
  endpoints,    \* what SerialPort.list() currently enumerates
  pc,           \* position of each call
  op,           \* the public operation each call runs
  ret,          \* where the call continues after #getSerialPort
  sp,           \* local serialPort of #getSerialPort
  opts,         \* options of #executeCommand
  response,     \* local response of #executeCommand (raw text)
  commandFound, \* local commandFound of #executeCommand
  result,       \* what #executeCommand returned
  value,        \* what the public operation resolved with
  err,          \* the error the call rejected with
  closing,      \* the port close() handed to closeAsync
  acq,          \* events and attempts of the current #getSerialPort call
  stat,         \* events and I/O of the current public call
  portPath      \* the path each SerialPort object was created for

vars == <<serialPort, ports, observed, endpoints, pc, op, ret, sp, opts,
          response, commandFound, result, value, err, closing, acq, stat, portPath>>

Ops == {"waitForDevice", "waitForApp", "listTokens", "close", "execute"}

NoResult == [kind |-> "none", text |-> <<>>]
NullResult == [kind |-> "null", text |-> <<>>]
StringResult(s) == [kind |-> "string", text |-> s]
NoValue == [kind |-> "none", recs |-> <<>>]
NoError == [kind |-> "none", at |-> "none"]
NoAcq == [connecting |-> 0, connected |-> 0, opens |-> 0, openFails |-> 0, probeFails |-> 0]
NoStat == [writes |-> 0, delays |-> 0, notFound |-> 0, pinRequested |-> 0,
           sawPin |-> FALSE, closed |-> 0, timedOut |-> FALSE]

\* ----------------------------------------------------------- text helpers
Includes(s, x) == \E i \in 1..Len(s) : s[i] = x

\* String.prototype.replace(string, ''): the first occurrence only.
RECURSIVE ReplaceFirst(_, _)
ReplaceFirst(s, x) ==
  IF s = <<>> THEN <<>>
  ELSE IF Head(s) = x THEN Tail(s)
       ELSE <<Head(s)>> \o ReplaceFirst(Tail(s), x)

\* /(\x1b\[(\d+m|A|2K))|(\b \b)\r?/g replaced by '': every terminal control
\* command, and every space that stands between two word characters (\b is a
\* word boundary, so the \r? after it can match nothing).
RECURSIVE TrimControlFrom(_, _)
TrimControlFrom(s, i) ==
  IF i > Len(s) THEN <<>>
  ELSE IF s[i] = "ESC" THEN TrimControlFrom(s, i + 1)
  ELSE IF /\ s[i] = "SP"
          /\ i > 1 /\ s[i - 1] \in WordChars
          /\ i < Len(s) /\ s[i + 1] \in WordChars
       THEN TrimControlFrom(s, i + 1)
  ELSE <<s[i]>> \o TrimControlFrom(s, i + 1)

TrimTerminalControlCommands(s) == TrimControlFrom(s, 1)

\* /^\s*\r?\n?$/gm replaced by ''.  Positions are 1..Len(s)+1; position i is
\* in front of s[i].
AtLineStart(s, i) == i = 1 \/ s[i - 1] \in LineTerminators
AtLineEnd(s, i) == i = Len(s) + 1 \/ s[i] \in LineTerminators
WhiteRunEnd(s, i) ==
  CHOOSE e \in i..(Len(s) + 1) :
    /\ \A k \in i..(e - 1) : s[k] \in WhiteSpace
    /\ (e = Len(s) + 1 \/ s[e] \notin WhiteSpace)
\* End of the match that starts at i, or 0 when there is none: \s* is greedy
\* and backtracks, so the match ends at the last line end of the white run.
EmptyLineMatchEnd(s, i) ==
  LET ends == { e \in i..WhiteRunEnd(s, i) : AtLineEnd(s, e) }
  IN IF AtLineStart(s, i) /\ ends # {}
     THEN CHOOSE e \in ends : \A f \in ends : f <= e
     ELSE 0

RECURSIVE TrimEmptyLinesFrom(_, _)
TrimEmptyLinesFrom(s, i) ==
  IF i > Len(s) THEN <<>>
  ELSE LET e == EmptyLineMatchEnd(s, i)
       IN IF e > i THEN TrimEmptyLinesFrom(s, e)
          ELSE <<s[i]>> \o TrimEmptyLinesFrom(s, i + 1)

TrimEmptyLines(s) == TrimEmptyLinesFrom(s, 1)

\* Lines 120-130: the sanitization of a response.
Sanitize(r, o) ==
  LET r1 == IF o.trimCommandEndSignature THEN ReplaceFirst(r, FlipperCliEndOfCommand) ELSE r
      r2 == IF o.trimTerminalControlCommands THEN TrimTerminalControlCommands(r1) ELSE r1
      r3 == IF o.trimEmptyLines THEN TrimEmptyLines(r2) ELSE r2
  IN r3

\* PostProcess without the test for the cancelled sentinel.
PostProcess_KeepCancelled(r, o) ==
  IF r = <<>> THEN [kind |-> "null", text |-> <<>>]
  ELSE [kind |-> "string", text |-> Sanitize(r, o)]

\* Lines 117-133: what #executeCommand returns for its last response.
PostProcess(r, o) ==
  IF r = <<>> \/ Includes(r, TotpCommandCancelled)
  THEN NullResult
  ELSE StringResult(Sanitize(r, o))

\* Line 106.
CommandFound(r) == r # <<>> /\ ~Includes(r, FlipperCliCommandNotFound)

\* ascii-table-parse: the lines of the text, without the header line and the
\* separator line; one record per remaining line.
RECURSIVE SplitLines(_, _)
SplitLines(s, cur) ==
  IF s = <<>> THEN (IF cur = <<>> THEN <<>> ELSE <<cur>>)
  ELSE IF Head(s) = "LF" THEN <<cur>> \o SplitLines(Tail(s), <<>>)
  ELSE IF Head(s) = "CR" THEN SplitLines(Tail(s), cur)
  ELSE SplitLines(Tail(s), Append(cur, Head(s)))

parseFromString(s) ==
  LET lines == SplitLines(s, <<>>)
  IN IF Len(lines) <= 2 THEN <<>> ELSE SubSeq(lines, 3, Len(lines))

\* getFlipperZeroDevice with || in place of && in the test of line 15.
getFlipperZeroDevice_EitherId(list) ==
  LET hits == { i \in 1..Len(list) :
                  list[i].vendorId = FlipperVendorId \/ list[i].productId = FlipperProductId }
  IN IF hits = {} THEN 0 ELSE CHOOSE i \in hits : \A j \in hits : i <= j

\* Lines 13-16: the first endpoint with the Flipper's vendor and product id,
\* as an index into the list; 0 when there is none.
getFlipperZeroDevice(list) ==
  LET hits == { i \in 1..Len(list) :
                  list[i].vendorId = FlipperVendorId /\ list[i].productId = FlipperProductId }
  IN IF hits = {} THEN 0 ELSE CHOOSE i \in hits : \A j \in hits : i <= j

\* ---------------------------------------------------------------- helpers
NoPath == "none"

InUse == ports \cup {serialPort} \cup {sp[t] : t \in Tasks} \cup {closing[t] : t \in Tasks}
FreePorts == PortIds \ InUse
NewPort == CHOOSE p \in FreePorts : \A q \in FreePorts : p <= q

Fails(t) == acq[t].openFails + acq[t].probeFails

\* serial-port-async: openAsync(p) resolves with p open; closeAsync(p)
\* resolves with p closed.  Given here as the set of open ports afterwards.
openAsync(p) == ports \cup {p}
closeAsync(p) == ports \ {p}

\* serial-port-extensions: what readUntil rejects with when its deadline
\* passes; at names the read (echo, main).
TimeoutError(at) == [kind |-> "timeout", at |-> at]

\* OnClose without the assignment of line 78: the held port stays.
OnClose_Ignored(p) == serialPort

\* Line 57 creates the port with the default lock option: a path that an
\* open port has is not opened a second time.
PathFree(p) == \A q \in ports : portPath[q] # portPath[p]

\* The 'close' listener of lines 77-79, run for port p.
OnClose(p) == IF p \in observed THEN 0 ELSE serialPort

Init ==
  /\ serialPort = 0
  /\ ports = {}
  /\ observed = {}
  /\ endpoints \in EndpointLists
  /\ pc = [t \in Tasks |-> "idle"]
  /\ op = [t \in Tasks |-> "none"]
  /\ ret = [t \in Tasks |-> "none"]
  /\ sp = [t \in Tasks |-> 0]
  /\ opts = [t \in Tasks |-> executeCommandDefaultOptions]
  /\ response = [t \in Tasks |-> <<>>]
  /\ commandFound = [t \in Tasks |-> FALSE]
  /\ result = [t \in Tasks |-> NoResult]
  /\ value = [t \in Tasks |-> NoValue]
  /\ err = [t \in Tasks |-> NoError]
  /\ closing = [t \in Tasks |-> 0]
  /\ acq = [t \in Tasks |-> NoAcq]
  /\ stat = [t \in Tasks |-> NoStat]
  /\ portPath = [p \in PortIds |-> NoPath]


\* ------------------------------------------------------ the public calls
\* A caller invokes one public operation; calls are made one after the other
\* (the caller awaits a call before it makes the next).
Start(t) ==
  /\ \A u \in Tasks : pc[u] = "idle"
  /\ \E o \in Ops :
       /\ op' = [op EXCEPT ![t] = o]
       /\ pc' = [pc EXCEPT ![t] =
                   CASE o = "waitForDevice" -> "wfd_call"
                     [] o = "close" -> "cl_call"
                     [] OTHER -> "ex_write"]
       /\ \E os \in (IF o = "execute" THEN OptionSets ELSE {executeCommandDefaultOptions}) :
            opts' = [opts EXCEPT ![t] = os]
  /\ UNCHANGED <<portPath, serialPort, ports, observed, endpoints, ret, sp, response,
                 commandFound, result, value, err, closing, acq, stat>>

\* The caller has seen the outcome of the call.
Return(t) ==
  /\ pc[t] \in {"done", "failed"}
  /\ pc' = [pc EXCEPT ![t] = "idle"]
  /\ op' = [op EXCEPT ![t] = "none"]
  /\ ret' = [ret EXCEPT ![t] = "none"]
  /\ opts' = [opts EXCEPT ![t] = executeCommandDefaultOptions]
  /\ response' = [response EXCEPT ![t] = <<>>]
  /\ commandFound' = [commandFound EXCEPT ![t] = FALSE]
  /\ result' = [result EXCEPT ![t] = NoResult]
  /\ value' = [value EXCEPT ![t] = NoValue]
  /\ err' = [err EXCEPT ![t] = NoError]
  /\ closing' = [closing EXCEPT ![t] = 0]
  /\ acq' = [acq EXCEPT ![t] = NoAcq]
  /\ stat' = [stat EXCEPT ![t] = NoStat]
  /\ UNCHANGED <<portPath, serialPort, ports, observed, endpoints, sp>>

\* --------------------------------------------------------- #getSerialPort
\* GetSerialPort_Enter without the test of line 51: the loop runs also when a
\* port is held.
GetSerialPort_Enter_Always(t) ==
  /\ pc[t] \in {"wfd_call", "ex_write", "ex_echo", "ex_main", "ex_reread"}
  /\ ret' = [ret EXCEPT ![t] = IF pc[t] = "wfd_call" THEN "done" ELSE pc[t]]
  /\ acq' = [acq EXCEPT ![t] = [NoAcq EXCEPT !.connecting = 1]]
  /\ pc' = [pc EXCEPT ![t] = "poll"]
  /\ UNCHANGED <<portPath, serialPort, ports, observed, endpoints, op, sp, opts, response,
                 commandFound, result, value, err, closing, stat>>

\* Line 51 with this.#serialPort == null, then line 55 and the call of line
\* 56: the call enters the loop, emits connecting and starts to enumerate.
GetSerialPort_Enter(t) ==
  /\ pc[t] \in {"wfd_call", "ex_write", "ex_echo", "ex_main", "ex_reread"}
  /\ serialPort = 0
  /\ ret' = [ret EXCEPT ![t] = IF pc[t] = "wfd_call" THEN "done" ELSE pc[t]]
  /\ acq' = [acq EXCEPT ![t] = [NoAcq EXCEPT !.connecting = 1]]
  /\ pc' = [pc EXCEPT ![t] = "poll"]
  /\ UNCHANGED <<portPath, serialPort, ports, observed, endpoints, op, sp, opts, response,
                 commandFound, result, value, err, closing, stat>>

\* Lines 20-24 and 57-59: the enumeration has a Flipper; a SerialPort is
\* created for its path and openAsync is started.
WaitForFlipperZeroDevice_Found(t) ==
  /\ pc[t] = "poll"
  /\ getFlipperZeroDevice(endpoints) # 0
  /\ FreePorts # {}
  /\ sp' = [sp EXCEPT ![t] = NewPort]
  /\ portPath' = [portPath EXCEPT ![NewPort] = endpoints[getFlipperZeroDevice(endpoints)].path]
  /\ acq' = [acq EXCEPT ![t].opens = @ + 1]
  /\ pc' = [pc EXCEPT ![t] = "open"]
  /\ UNCHANGED <<serialPort, ports, observed, endpoints, op, ret, opts, response,
                 commandFound, result, value, err, closing, stat>>

\* WaitForFlipperZeroDevice_Absent with a deadline: the wait gives up.
WaitForFlipperZeroDevice_Absent_GivesUp(t) ==
  /\ pc[t] = "poll"
  /\ getFlipperZeroDevice(endpoints) = 0
  /\ err' = [err EXCEPT ![t] = TimeoutError("poll")]
  /\ pc' = [pc EXCEPT ![t] = "failed"]
  /\ UNCHANGED <<portPath, serialPort, ports, observed, endpoints, op, ret, sp, opts, response,
                 commandFound, result, value, closing, acq, stat>>

\* Lines 20-21: no Flipper enumerated; delay(1000) is started.
WaitForFlipperZeroDevice_Absent(t) ==
  /\ pc[t] = "poll"
  /\ getFlipperZeroDevice(endpoints) = 0
  /\ pc' = [pc EXCEPT ![t] = "poll_delay"]
  /\ UNCHANGED <<portPath, serialPort, ports, observed, endpoints, op, ret, sp, opts, response,
                 commandFound, result, value, err, closing, acq, stat>>

\* Line 21 to line 20: the delay is over, the ports are enumerated again.
WaitForFlipperZeroDevice_Delay(t) ==
  /\ pc[t] = "poll_delay"
  /\ pc' = [pc EXCEPT ![t] = "poll"]
  /\ UNCHANGED <<portPath, serialPort, ports, observed, endpoints, op, ret, sp, opts, response,
                 commandFound, result, value, err, closing, acq, stat>>

\* Line 59 resolves, line 67 starts the shell-ready probe.
GetSerialPort_OpenOk(t) ==
  /\ pc[t] = "open"
  /\ PathFree(sp[t])
  /\ ports' = openAsync(sp[t])
  /\ pc' = [pc EXCEPT ![t] = "probe"]
  /\ UNCHANGED <<portPath, serialPort, observed, endpoints, op, ret, sp, opts, response,
                 commandFound, result, value, err, closing, acq, stat>>

\* GetSerialPort_OpenFail without the catch of line 60: the rejection of
\* openAsync reaches the caller.
GetSerialPort_OpenFail_Rethrown(t) ==
  /\ pc[t] = "open"
  /\ Fails(t) < MaxFail
  /\ sp' = [sp EXCEPT ![t] = 0]
  /\ portPath' = [portPath EXCEPT ![sp[t]] = NoPath]
  /\ acq' = [acq EXCEPT ![t].openFails = @ + 1]
  /\ err' = [err EXCEPT ![t] = [kind |-> "error", at |-> "open"]]
  /\ pc' = [pc EXCEPT ![t] = "failed"]
  /\ UNCHANGED <<serialPort, ports, observed, endpoints, op, ret, opts, response,
                 commandFound, result, value, closing, stat>>

\* Lines 60-63: openAsync rejects; the port is dropped and delay(1000) starts.
GetSerialPort_OpenFail(t) ==
  /\ pc[t] = "open"
  /\ Fails(t) < MaxFail
  /\ sp' = [sp EXCEPT ![t] = 0]
  /\ portPath' = [portPath EXCEPT ![sp[t]] = NoPath]
  /\ acq' = [acq EXCEPT ![t].openFails = @ + 1]
  /\ pc' = [pc EXCEPT ![t] = "open_delay"]
  /\ UNCHANGED <<serialPort, ports, observed, endpoints, op, ret, opts, response,
                 commandFound, result, value, err, closing, stat>>

\* Lines 63, 65, 75, 55, 56: after the delay the loop runs again from its top.
GetSerialPort_OpenDelay(t) ==
  /\ pc[t] = "open_delay"
  /\ acq' = [acq EXCEPT ![t].connecting = @ + 1]
  /\ pc' = [pc EXCEPT ![t] = "poll"]
  /\ UNCHANGED <<portPath, serialPort, ports, observed, endpoints, op, ret, sp, opts, response,
                 commandFound, result, value, err, closing, stat>>

\* GetSerialPort_ProbeOk that does not depend on the probe: the port is stored
\* and announced also when its channel has already closed.
GetSerialPort_ProbeOk_Unprobed(t) ==
  /\ pc[t] = "probe"
  /\ observed' = observed \cup (ports \cap {sp[t]})
  /\ serialPort' = sp[t]
  /\ acq' = [acq EXCEPT ![t].connected = @ + 1]
  /\ sp' = [sp EXCEPT ![t] = 0]
  /\ pc' = [pc EXCEPT ![t] = ret[t]]
  /\ UNCHANGED <<portPath, ports, endpoints, op, ret, opts, response,
                 commandFound, result, value, err, closing, stat>>

\* Lines 67, 75-84: the probe read resolves; the listener is registered, the
\* port stored, connected emitted and the port returned to the caller.
GetSerialPort_ProbeOk(t) ==
  /\ pc[t] = "probe"
  /\ sp[t] \in ports
  /\ observed' = observed \cup {sp[t]}
  /\ serialPort' = sp[t]
  /\ acq' = [acq EXCEPT ![t].connected = @ + 1]
  /\ sp' = [sp EXCEPT ![t] = 0]
  /\ pc' = [pc EXCEPT ![t] = ret[t]]
  /\ UNCHANGED <<portPath, ports, endpoints, op, ret, opts, response,
                 commandFound, result, value, err, closing, stat>>

\* GetSerialPort_ProbeFail that keeps the port whose probe failed: it is
\* stored and returned as if the probe had succeeded.
GetSerialPort_ProbeFail_Kept(t) ==
  /\ pc[t] = "probe"
  /\ Fails(t) < MaxFail
  /\ sp[t] \in ports
  /\ observed' = observed \cup {sp[t]}
  /\ serialPort' = sp[t]
  /\ acq' = [acq EXCEPT ![t].probeFails = @ + 1, ![t].connected = @ + 1]
  /\ sp' = [sp EXCEPT ![t] = 0]
  /\ pc' = [pc EXCEPT ![t] = ret[t]]
  /\ UNCHANGED <<portPath, ports, endpoints, op, ret, opts, response,
                 commandFound, result, value, err, closing, stat>>

\* GetSerialPort_ProbeFail with the 'close' listener registered before the
\* probe: the port whose probe failed carries it.
GetSerialPort_ProbeFail_Observed(t) ==
  /\ pc[t] = "probe"
  /\ Fails(t) < MaxFail
  /\ observed' = observed \cup (ports \cap {sp[t]})
  /\ acq' = [acq EXCEPT ![t].probeFails = @ + 1]
  /\ pc' = [pc EXCEPT ![t] = "probe_close"]
  /\ UNCHANGED <<portPath, serialPort, ports, endpoints, op, ret, sp, opts, response,
                 commandFound, result, value, err, closing, stat>>

\* Lines 68-70: the probe read rejects; closeAsync is started.
GetSerialPort_ProbeFail(t) ==
  /\ pc[t] = "probe"
  /\ Fails(t) < MaxFail
  /\ acq' = [acq EXCEPT ![t].probeFails = @ + 1]
  /\ pc' = [pc EXCEPT ![t] = "probe_close"]
  /\ UNCHANGED <<portPath, serialPort, ports, observed, endpoints, op, ret, sp, opts, response,
                 commandFound, result, value, err, closing, stat>>

\* GetSerialPort_ProbeClose without the closeAsync of line 70: the port is
\* dropped but stays open.
GetSerialPort_ProbeClose_Leaked(t) ==
  /\ pc[t] = "probe_close"
  /\ sp' = [sp EXCEPT ![t] = 0]
  /\ pc' = [pc EXCEPT ![t] = "probe_delay"]
  /\ UNCHANGED <<portPath, serialPort, ports, observed, endpoints, op, ret, opts, response,
                 commandFound, result, value, err, closing, acq, stat>>

\* Lines 70-72: the port is closed and dropped; delay(1000) starts.
GetSerialPort_ProbeClose(t) ==
  /\ pc[t] = "probe_close"
  /\ ports' = closeAsync(sp[t])
  /\ portPath' = [portPath EXCEPT ![sp[t]] = NoPath]
  /\ serialPort' = OnClose(sp[t])
  /\ observed' = observed \ {sp[t]}
  /\ sp' = [sp EXCEPT ![t] = 0]
  /\ pc' = [pc EXCEPT ![t] = "probe_delay"]
  /\ UNCHANGED <<endpoints, op, ret, opts, response,
                 commandFound, result, value, err, closing, acq, stat>>

\* Lines 72, 75, 55, 56: after the delay the loop runs again from its top.
GetSerialPort_ProbeDelay(t) ==
  /\ pc[t] = "probe_delay"
  /\ acq' = [acq EXCEPT ![t].connecting = @ + 1]
  /\ pc' = [pc EXCEPT ![t] = "poll"]
  /\ UNCHANGED <<portPath, serialPort, ports, observed, endpoints, op, ret, sp, opts, response,
                 commandFound, result, value, err, closing, stat>>

\* ----------------------------------------------------------- waitForDevice
\* Lines 140-144 with a held port: nothing to do.
WaitForDevice_Held(t) ==
  /\ pc[t] = "wfd_call"
  /\ serialPort # 0
  /\ pc' = [pc EXCEPT ![t] = "done"]
  /\ UNCHANGED <<portPath, serialPort, ports, observed, endpoints, op, ret, sp, opts, response,
                 commandFound, result, value, err, closing, acq, stat>>


\* -------------------------------------------------------- #executeCommand
\* OpValue without the test of line 148: null is handed to the parser, which
\* gives no records value.
OpValue_Unchecked(o, res) ==
  IF o = "listTokens" /\ res.kind = "string"
  THEN [kind |-> "records", recs |-> parseFromString(res.text)]
  ELSE NoValue

\* What the public operation resolves with once #executeCommand has returned
\* res: waitForApp discards it (line 137), listTokens parses it (line 148).
OpValue(o, res) ==
  IF o = "listTokens"
  THEN [kind |-> "records",
        recs |-> IF res.kind = "string" /\ res.text # <<>>
                 THEN parseFromString(res.text) ELSE <<>>]
  ELSE NoValue

\* Line 99 with a held port: the command is written and drained; line 101
\* or line 104 starts the next read.
ExecuteCommand_Write(t) ==
  /\ pc[t] = "ex_write"
  /\ serialPort # 0
  /\ stat' = [stat EXCEPT ![t].writes = @ + 1]
  /\ pc' = [pc EXCEPT ![t] = IF opts[t].skipFirstLine THEN "ex_echo" ELSE "ex_main"]
  /\ UNCHANGED <<portPath, serialPort, ports, observed, endpoints, op, ret, sp, opts, response,
                 commandFound, result, value, err, closing, acq>>

\* Line 101: the echoed command line has been read.
ExecuteCommand_EchoRead(t) ==
  /\ pc[t] = "ex_echo"
  /\ serialPort # 0
  /\ pc' = [pc EXCEPT ![t] = "ex_main"]
  /\ UNCHANGED <<portPath, serialPort, ports, observed, endpoints, op, ret, sp, opts, response,
                 commandFound, result, value, err, closing, acq, stat>>

\* Line 101: no line terminator within 1000 ms; readUntil rejects and nothing
\* catches it.
ExecuteCommand_EchoTimeout(t) ==
  /\ pc[t] = "ex_echo"
  /\ serialPort # 0
  /\ err' = [err EXCEPT ![t] = TimeoutError("echo")]
  /\ pc' = [pc EXCEPT ![t] = "failed"]
  /\ UNCHANGED <<portPath, serialPort, ports, observed, endpoints, op, ret, sp, opts, response,
                 commandFound, result, value, closing, acq, stat>>

\* Lines 104-115 and, when the loop ends, 117-133: the main read resolves
\* with r.
ExecuteCommand_MainRead(t) ==
  /\ pc[t] = "ex_main"
  /\ serialPort # 0
  /\ \E r \in ResponsesTo(op[t]) :
       /\ response' = [response EXCEPT ![t] = r]
       /\ commandFound' = [commandFound EXCEPT ![t] = CommandFound(r)]
       /\ IF CommandFound(r)
          THEN IF Includes(r, TotpAskForPin)
               THEN /\ stat' = [stat EXCEPT ![t].pinRequested = @ + 1, ![t].sawPin = TRUE]
                    /\ pc' = [pc EXCEPT ![t] = "ex_reread"]
                    /\ UNCHANGED <<portPath, result, value>>
               ELSE /\ result' = [result EXCEPT ![t] = PostProcess(r, opts[t])]
                    /\ value' = [value EXCEPT ![t] = OpValue(op[t], PostProcess(r, opts[t]))]
                    /\ pc' = [pc EXCEPT ![t] = "done"]
                    /\ UNCHANGED stat
          ELSE /\ stat[t].notFound < MaxRetries
               /\ stat' = [stat EXCEPT ![t].notFound = @ + 1]
               /\ pc' = [pc EXCEPT ![t] = "ex_delay"]
               /\ UNCHANGED <<portPath, result, value>>
  /\ UNCHANGED <<portPath, serialPort, ports, observed, endpoints, op, ret, sp, opts,
                 err, closing, acq>>

\* ExecuteCommand_MainTimeout that swallows the timeout and treats it as a
\* command that was not found: the loop goes on.
ExecuteCommand_MainTimeout_Retried(t) ==
  /\ pc[t] = "ex_main"
  /\ serialPort # 0
  /\ stat[t].notFound < MaxRetries
  /\ stat' = [stat EXCEPT ![t].timedOut = TRUE, ![t].notFound = @ + 1]
  /\ pc' = [pc EXCEPT ![t] = "ex_delay"]
  /\ UNCHANGED <<portPath, serialPort, ports, observed, endpoints, op, ret, sp, opts, response,
                 commandFound, result, value, err, closing, acq>>

\* Line 104: nothing the detection pattern matches within 5000 ms; readUntil
\* rejects and nothing catches it.
ExecuteCommand_MainTimeout(t) ==
  /\ pc[t] = "ex_main"
  /\ serialPort # 0
  /\ stat' = [stat EXCEPT ![t].timedOut = TRUE]
  /\ err' = [err EXCEPT ![t] = TimeoutError("main")]
  /\ pc' = [pc EXCEPT ![t] = "failed"]
  /\ UNCHANGED <<portPath, serialPort, ports, observed, endpoints, op, ret, sp, opts, response,
                 commandFound, result, value, closing, acq>>

\* ExecuteCommand_Delay that goes back to the read of line 104 instead of the
\* write of line 99: the command is not written again.
ExecuteCommand_Delay_NoRewrite(t) ==
  /\ pc[t] = "ex_delay"
  /\ stat' = [stat EXCEPT ![t].delays = @ + 1]
  /\ pc' = [pc EXCEPT ![t] = "ex_main"]
  /\ UNCHANGED <<portPath, serialPort, ports, observed, endpoints, op, ret, sp, opts, response,
                 commandFound, result, value, err, closing, acq>>

\* Lines 113, 115, 99: the delay after a command that was not found is over.
ExecuteCommand_Delay(t) ==
  /\ pc[t] = "ex_delay"
  /\ stat' = [stat EXCEPT ![t].delays = @ + 1]
  /\ pc' = [pc EXCEPT ![t] = "ex_write"]
  /\ UNCHANGED <<portPath, serialPort, ports, observed, endpoints, op, ret, sp, opts, response,
                 commandFound, result, value, err, closing, acq>>

\* ExecuteCommand_Reread that emits pin-requested again when the text it read
\* ends at another PIN request.
ExecuteCommand_Reread_EmitAgain(t) ==
  /\ pc[t] = "ex_reread"
  /\ serialPort # 0
  /\ \E r \in ResponsesTo(op[t]) :
       /\ response' = [response EXCEPT ![t] = r]
       /\ stat' = [stat EXCEPT ![t].sawPin = @ \/ Includes(r, TotpAskForPin),
                               ![t].pinRequested =
                                  IF Includes(r, TotpAskForPin) THEN @ + 1 ELSE @]
       /\ result' = [result EXCEPT ![t] = PostProcess(r, opts[t])]
       /\ value' = [value EXCEPT ![t] = OpValue(op[t], PostProcess(r, opts[t]))]
  /\ pc' = [pc EXCEPT ![t] = "done"]
  /\ UNCHANGED <<portPath, serialPort, ports, observed, endpoints, op, ret, sp, opts,
                 commandFound, err, closing, acq>>

\* Lines 110, 115, 117-133: the read after the PIN request resolves with r
\* (it has no deadline); commandFound is already true, the loop ends.
ExecuteCommand_Reread(t) ==
  /\ pc[t] = "ex_reread"
  /\ serialPort # 0
  /\ \E r \in ResponsesTo(op[t]) :
       /\ response' = [response EXCEPT ![t] = r]
       /\ stat' = [stat EXCEPT ![t].sawPin = @ \/ Includes(r, TotpAskForPin)]
       /\ result' = [result EXCEPT ![t] = PostProcess(r, opts[t])]
       /\ value' = [value EXCEPT ![t] = OpValue(op[t], PostProcess(r, opts[t]))]
  /\ pc' = [pc EXCEPT ![t] = "done"]
  /\ UNCHANGED <<portPath, serialPort, ports, observed, endpoints, op, ret, sp, opts,
                 commandFound, err, closing, acq>>

\* Close_NotHeld that emits closed only from the branch that closes a port.
Close_NotHeld_Silent(t) ==
  /\ pc[t] = "cl_call"
  /\ serialPort = 0
  /\ pc' = [pc EXCEPT ![t] = "done"]
  /\ UNCHANGED <<portPath, serialPort, ports, observed, endpoints, op, ret, sp, opts, response,
                 commandFound, result, value, err, closing, acq, stat>>

\* ------------------------------------------------------------------ close
\* Lines 152, 156 with no held port: closed is emitted at once.
Close_NotHeld(t) ==
  /\ pc[t] = "cl_call"
  /\ serialPort = 0
  /\ stat' = [stat EXCEPT ![t].closed = @ + 1]
  /\ pc' = [pc EXCEPT ![t] = "done"]
  /\ UNCHANGED <<portPath, serialPort, ports, observed, endpoints, op, ret, sp, opts, response,
                 commandFound, result, value, err, closing, acq>>

\* Lines 152-153 with a held port: closeAsync is started on it.
Close_Held(t) ==
  /\ pc[t] = "cl_call"
  /\ serialPort # 0
  /\ closing' = [closing EXCEPT ![t] = serialPort]
  /\ pc' = [pc EXCEPT ![t] = "cl_closing"]
  /\ UNCHANGED <<portPath, serialPort, ports, observed, endpoints, op, ret, sp, opts, response,
                 commandFound, result, value, err, acq, stat>>

\* Lines 153, 156: the port has closed (its 'close' listener has run), then
\* closed is emitted.
Close_Closed(t) ==
  /\ pc[t] = "cl_closing"
  /\ ports' = closeAsync(closing[t])
  /\ portPath' = [portPath EXCEPT ![closing[t]] = NoPath]
  /\ serialPort' = OnClose(closing[t])
  /\ observed' = observed \ {closing[t]}
  /\ stat' = [stat EXCEPT ![t].closed = @ + 1]
  /\ pc' = [pc EXCEPT ![t] = "done"]
  /\ UNCHANGED <<endpoints, op, ret, sp, opts, response,
                 commandFound, result, value, err, closing, acq>>

\* ------------------------------------------------------------ environment
\* The channel of an open port closes (the device is unplugged); the port's
\* 'close' listener, if it has one, runs.
ChannelClosed ==
  \E p \in ports :
    /\ ports' = ports \ {p}
    /\ portPath' = [portPath EXCEPT ![p] = NoPath]
    /\ serialPort' = OnClose(p)
    /\ observed' = observed \ {p}
    /\ UNCHANGED <<endpoints, pc, op, ret, sp, opts, response,
                   commandFound, result, value, err, closing, acq, stat>>

\* The set of attached serial devices changes.
Enumerate ==
  /\ endpoints' \in EndpointLists \ {endpoints}
  /\ UNCHANGED <<portPath, serialPort, ports, observed, pc, op, ret, sp, opts, response,
                 commandFound, result, value, err, closing, acq, stat>>

Next ==
  \/ \E t \in Tasks : Start(t)
  \/ \E t \in Tasks : Return(t)
  \/ \E t \in Tasks : GetSerialPort_Enter(t)
  \/ \E t \in Tasks : WaitForFlipperZeroDevice_Found(t)
  \/ \E t \in Tasks : WaitForFlipperZeroDevice_Absent(t)
  \/ \E t \in Tasks : WaitForFlipperZeroDevice_Delay(t)
  \/ \E t \in Tasks : GetSerialPort_OpenOk(t)
  \/ \E t \in Tasks : GetSerialPort_OpenFail(t)
  \/ \E t \in Tasks : GetSerialPort_OpenDelay(t)
  \/ \E t \in Tasks : GetSerialPort_ProbeOk(t)
  \/ \E t \in Tasks : GetSerialPort_ProbeFail(t)
  \/ \E t \in Tasks : GetSerialPort_ProbeClose(t)
  \/ \E t \in Tasks : GetSerialPort_ProbeDelay(t)
  \/ \E t \in Tasks : WaitForDevice_Held(t)
  \/ \E t \in Tasks : ExecuteCommand_Write(t)
  \/ \E t \in Tasks : ExecuteCommand_EchoRead(t)
  \/ \E t \in Tasks : ExecuteCommand_EchoTimeout(t)
  \/ \E t \in Tasks : ExecuteCommand_MainRead(t)
  \/ \E t \in Tasks : ExecuteCommand_MainTimeout(t)
  \/ \E t \in Tasks : ExecuteCommand_Delay(t)
  \/ \E t \in Tasks : ExecuteCommand_Reread(t)
  \/ \E t \in Tasks : Close_NotHeld(t)
  \/ \E t \in Tasks : Close_Held(t)
  \/ \E t \in Tasks : Close_Closed(t)
  \/ ChannelClosed
  \/ Enumerate

Spec == Init /\ [][Next]_vars

TypeOK ==
  /\ serialPort \in 0..MaxPorts
  /\ ports \subseteq PortIds
  /\ observed \subseteq ports


\* -------------------------------------------------------- overlapping calls
\* A caller invokes a public operation without awaiting the calls it made
\* before (for example two waitForDevice calls from two event handlers).
\* Each task is one such call, followed to its outcome. The calls are those
\* whose only awaits are the ones of #getSerialPort (lines 50-85) and of
\* close (lines 151-157).
OverlappingOps == {"waitForDevice", "close"}

StartOverlapping(t) ==
  /\ pc[t] = "idle"
  /\ \E o \in OverlappingOps :
       /\ op' = [op EXCEPT ![t] = o]
       /\ pc' = [pc EXCEPT ![t] =
                   CASE o = "waitForDevice" -> "wfd_call"
                     [] OTHER -> "cl_call"]
  /\ UNCHANGED <<portPath, serialPort, ports, observed, endpoints, ret, sp, opts, response,
                 commandFound, result, value, err, closing, acq, stat>>

NextOverlapping ==
  \/ \E t \in Tasks : StartOverlapping(t)
  \/ \E t \in Tasks : GetSerialPort_Enter(t)
  \/ \E t \in Tasks : WaitForFlipperZeroDevice_Found(t)
  \/ \E t \in Tasks : WaitForFlipperZeroDevice_Absent(t)
  \/ \E t \in Tasks : WaitForFlipperZeroDevice_Delay(t)
  \/ \E t \in Tasks : GetSerialPort_OpenOk(t)
  \/ \E t \in Tasks : GetSerialPort_OpenFail(t)
  \/ \E t \in Tasks : GetSerialPort_OpenDelay(t)
  \/ \E t \in Tasks : GetSerialPort_ProbeOk(t)
  \/ \E t \in Tasks : GetSerialPort_ProbeFail(t)
  \/ \E t \in Tasks : GetSerialPort_ProbeClose(t)
  \/ \E t \in Tasks : GetSerialPort_ProbeDelay(t)
  \/ \E t \in Tasks : WaitForDevice_Held(t)
  \/ \E t \in Tasks : Close_NotHeld(t)
  \/ \E t \in Tasks : Close_Held(t)
  \/ \E t \in Tasks : Close_Closed(t)
  \/ ChannelClosed
  \/ Enumerate

SpecOverlapping == Init /\ [][NextOverlapping]_vars

\* ------------------------------------------------------ the device locator
\* waitForFlipperZeroDevice on its own: a call has entered #getSerialPort
\* (lines 51-56) and polls, while any list of endpoints may be enumerated.
InitLocator ==
  /\ serialPort = 0
  /\ ports = {}
  /\ observed = {}
  /\ endpoints \in AllEndpointLists
  /\ pc = [t \in Tasks |-> IF t = 1 THEN "poll" ELSE "idle"]
  /\ op = [t \in Tasks |-> IF t = 1 THEN "waitForDevice" ELSE "none"]
  /\ ret = [t \in Tasks |-> IF t = 1 THEN "done" ELSE "none"]
  /\ sp = [t \in Tasks |-> 0]
  /\ opts = [t \in Tasks |-> executeCommandDefaultOptions]
  /\ response = [t \in Tasks |-> <<>>]
  /\ commandFound = [t \in Tasks |-> FALSE]
  /\ result = [t \in Tasks |-> NoResult]
  /\ value = [t \in Tasks |-> NoValue]
  /\ err = [t \in Tasks |-> NoError]
  /\ closing = [t \in Tasks |-> 0]
  /\ acq = [t \in Tasks |-> IF t = 1 THEN [NoAcq EXCEPT !.connecting = 1] ELSE NoAcq]
  /\ stat = [t \in Tasks |-> NoStat]
  /\ portPath = [p \in PortIds |-> NoPath]

NextLocator ==
  \/ \E t \in Tasks : WaitForFlipperZeroDevice_Found(t)
  \/ \E t \in Tasks : WaitForFlipperZeroDevice_Absent(t)
  \/ \E t \in Tasks : WaitForFlipperZeroDevice_Delay(t)
  \/ Enumerate

\* SerialPort.list() and delay(1000) settle, so a poll that can go on does.
SpecLocator ==
  /\ InitLocator
  /\ [][NextLocator]_vars
  /\ WF_vars(\E t \in Tasks : WaitForFlipperZeroDevice_Found(t))
  /\ WF_vars(\E t \in Tasks : WaitForFlipperZeroDevice_Absent(t))
  /\ WF_vars(\E t \in Tasks : WaitForFlipperZeroDevice_Delay(t))

\* ================================================================= claims
ExecOps == {"waitForApp", "listTokens", "execute"}
Returned(t) == pc[t] = "done" /\ op[t] \in ExecOps

\* C1: at most one transport of the client is open at any time; a newly
\* opened transport never coexists with another open one.
C1_AtMostOneOpenTransport == Cardinality(ports) <= 1

\* A second transport has been opened and stored after the first one failed
\* its probe and was closed.
C1_Witness ==
  \E t \in Tasks : /\ acq[t].opens >= 2 /\ acq[t].probeFails >= 1
                   /\ acq[t].connected = 1
                   /\ serialPort # 0 /\ ports = {serialPort}

\* C2: when the last response #executeCommand read contains the cancelled
\* sentinel, it returns null and not a string, whatever the options and
\* whether or not a PIN request came first.
C2_CancelledGivesNull ==
  \A t \in Tasks :
    (Returned(t) /\ Includes(response[t], TotpCommandCancelled))
      => result[t].kind = "null"

\* A command was cancelled after a PIN request and has returned null.
C2_Witness ==
  \E t \in Tasks : /\ Returned(t) /\ stat[t].sawPin
                   /\ Includes(response[t], TotpCommandCancelled)
                   /\ result[t].kind = "null"

\* C3: one #executeCommand call emits pin-requested exactly once when a
\* response it read contains the PIN sentinel, also when the prompt is
\* repeated, and never when no response contains it.
C3_OnePinRequested ==
  \A t \in Tasks :
    stat[t].pinRequested = (IF stat[t].sawPin THEN 1 ELSE 0)

\* A command has returned after the device repeated the PIN request; one
\* event was emitted.
C3_Witness ==
  \E t \in Tasks : /\ Returned(t) /\ Includes(response[t], TotpAskForPin)
                   /\ stat[t].pinRequested = 1

\* C4: when a response contained the PIN sentinel, the text #executeCommand
\* returns does not contain the PIN sentinel.
C4_ReturnExcludesPinPrompt ==
  \A t \in Tasks :
    (Returned(t) /\ stat[t].sawPin) => ~Includes(result[t].text, TotpAskForPin)

\* C5: after N command-not-found responses and a normal one, the command
\* has been written N+1 times with N delays in between, and the result is
\* the sanitized text of the last response, not of a not-found one.
C5_RetriesUntilFound ==
  \A t \in Tasks :
    /\ Returned(t) =>
         /\ stat[t].writes = stat[t].notFound + 1
         /\ stat[t].delays = stat[t].notFound
    /\ (Returned(t) /\ ~stat[t].sawPin) =>
         /\ ~Includes(response[t], FlipperCliCommandNotFound)
         /\ ~Includes(result[t].text, FlipperCliCommandNotFound)
         /\ result[t].kind = "string" => result[t].text = Sanitize(response[t], opts[t])

\* Two not-found responses, then the table: three writes, and the sanitized
\* table is returned.
C5_Witness ==
  \E t \in Tasks : /\ Returned(t) /\ stat[t].notFound = 2 /\ stat[t].writes = 3
                   /\ stat[t].delays = 2
                   /\ response[t] = RespTable
                   /\ opts[t] = executeCommandDefaultOptions
                   /\ result[t] = [kind |-> "string", text |-> <<"a", "CR", "LF", "b", "CR">>]

\* C6: when the main read misses its 5 s deadline, the call has failed with
\* a timeout: it is not waiting, not retrying and has no return value.
C6_MainTimeoutFails ==
  \A t \in Tasks :
    stat[t].timedOut =>
      /\ pc[t] = "failed"
      /\ err[t] = [kind |-> "timeout", at |-> "main"]
      /\ result[t].kind = "none" /\ value[t].kind = "none"

\* A command was written and its main read timed out.
C6_Witness ==
  \E t \in Tasks : stat[t].timedOut /\ stat[t].writes >= 1 /\ pc[t] = "failed"

C8_AcquisitionRetries ==
  \A t \in Tasks :
    /\ err[t].at \notin {"open", "probe"}
    /\ pc[t] \in {"open_delay", "probe_delay", "poll", "poll_delay"} => sp[t] = 0
    /\ pc[t] \in {"open_delay", "probe_delay"} => Fails(t) = acq[t].opens
    /\ acq[t].connected = 0 => pc[t] \notin {"done", "failed"} \/ acq[t].opens = 0
    /\ acq[t].connected >= 1 =>
         /\ acq[t].connected = 1
         /\ acq[t].opens = Fails(t) + 1

\* An acquisition has ended after an open failure and a probe failure.
C8_Witness ==
  \E t \in Tasks : /\ acq[t].connected = 1 /\ acq[t].openFails >= 1
                   /\ acq[t].probeFails >= 1 /\ acq[t].opens = 3
                   /\ serialPort \in ports

\* C9: a close() call emits closed exactly once and raises nothing, with or
\* without a held transport; a held transport is closed before the event.
C9_CloseEmitsOnce ==
  \A t \in Tasks :
    op[t] = "close" =>
      /\ pc[t] # "failed"
      /\ stat[t].closed = (IF pc[t] = "done" THEN 1 ELSE 0)
      /\ (stat[t].closed = 1 /\ closing[t] # 0) => closing[t] \notin ports

\* close() has ended with a transport that was held when it was called.
C9_Witness ==
  \E t \in Tasks : /\ op[t] = "close" /\ pc[t] = "done" /\ closing[t] # 0
                   /\ stat[t].closed = 1 /\ serialPort = 0

\* C10: one acquisition emits connecting exactly once, however many open
\* and probe failures it goes through, and then connected exactly once.
C10_ConnectingOnce ==
  \A t \in Tasks :
    acq[t].connected = 1 => acq[t].connecting = 1


\* C11: once a session is established, every closure of its channel (the
\* device unplugged, or close()) clears the held transport, so the held
\* transport is never a closed one and the next operation that needs a
\* transport acquires a new one (connecting, then connected).
C11_ClosureClearsHeld ==
  /\ [](serialPort # 0 => serialPort \in ports)
  /\ [][(serialPort # 0 /\ serialPort \notin ports') => serialPort' = 0]_vars
  /\ [][\A t \in Tasks :
          (serialPort = 0 /\ pc[t] \in {"wfd_call", "ex_write", "ex_echo", "ex_main", "ex_reread"}
             /\ pc'[t] # pc[t])
            => (pc'[t] = "poll" /\ acq'[t].connecting = 1 /\ acq'[t].connected = 0)]_vars

\* A command was written on one transport, the channel closed, and the main
\* read of the same call ran on a transport acquired anew.
C11_Witness ==
  \E t \in Tasks : /\ ret[t] = "ex_main" /\ pc[t] = "done"
                   /\ stat[t].writes = 1
                   /\ acq[t].connecting >= 1 /\ acq[t].connected = 1
                   /\ serialPort \in ports


IsFlipper(e) == e.vendorId = FlipperVendorId /\ e.productId = FlipperProductId
\* i is the first index of list whose endpoint has both identifiers.
FirstFlipperAt(list, i) ==
  /\ i \in 1..Len(list) /\ IsFlipper(list[i])
  /\ \A j \in 1..(i - 1) : ~IsFlipper(list[j])
NoFlipper(list) == \A i \in 1..Len(list) : ~IsFlipper(list[i])
Polling(t) == pc[t] \in {"poll", "poll_delay"}

\* C12: for every list of endpoints getFlipperZeroDevice gives the first
\* endpoint in list order whose vendor id and product id both equal the
\* constants, and none when no endpoint matches; a poll acts on that result.
C12_FirstMatchingEndpoint ==
  /\ [](LET r == getFlipperZeroDevice(endpoints)
        IN IF NoFlipper(endpoints) THEN r = 0 ELSE FirstFlipperAt(endpoints, r))
  /\ [][\A t \in Tasks :
          (pc[t] = "poll" /\ pc'[t] # "poll") =>
            IF NoFlipper(endpoints)
            THEN pc'[t] = "poll_delay"
            ELSE /\ pc'[t] = "open"
                 /\ \E i \in 1..Len(endpoints) :
                      /\ FirstFlipperAt(endpoints, i)
                      /\ portPath'[sp'[t]] = endpoints[i].path]_vars

\* Of two Flippers behind an endpoint with only the product id, the first
\* one in list order was found.
C12_Witness ==
  \E t \in Tasks : /\ pc[t] = "open"
                   /\ endpoints = <<EpSerial, EpFlipperB, EpFlipperA>>
                   /\ portPath[sp[t]] = "COM4"

\* C13: waitForFlipperZeroDevice never fails or returns while no matching
\* endpoint is enumerated, and once a matching endpoint stays enumerated it
\* returns one.
C13_WaitsUntilFound ==
  /\ [][\A t \in Tasks :
          Polling(t) =>
            \/ Polling(t)'
            \/ /\ pc'[t] = "open"
               /\ ~NoFlipper(endpoints)
               /\ \E i \in 1..Len(endpoints) :
                    IsFlipper(endpoints[i]) /\ portPath'[sp'[t]] = endpoints[i].path]_vars
  /\ (<>[](~NoFlipper(endpoints))) => \A t \in Tasks : [](Polling(t) => <>(pc[t] = "open"))

\* The wait has found no Flipper and is in its delay before the next poll.
C13_Witness ==
  \E t \in Tasks : /\ pc[t] = "poll_delay" /\ NoFlipper(endpoints)
                   /\ Len(endpoints) = MaxEndpoints /\ err[t] = NoError


\* C14 as stated: listTokens returns the empty sequence exactly when the
\* execution gave no response or an empty result.
C14_EmptyExactlyWhenNoResponse ==
  \A t \in Tasks :
    (op[t] = "listTokens" /\ pc[t] = "done") =>
      (value[t].recs = <<>> <=> (result[t].kind = "null" \/ result[t].text = <<>>))

\* C14 amended: listTokens returns the empty sequence when the execution gave
\* no response or an empty result, and otherwise the records parsed from the
\* sanitized response, which are none for a table without rows; a cancelled
\* command ends the call with the empty sequence, not with an error.
C14_ListTokensValue ==
  \A t \in Tasks :
    op[t] = "listTokens" =>
      /\ pc[t] = "done" =>
           /\ value[t].kind = "records"
           /\ value[t].recs = (IF result[t].kind = "null" \/ result[t].text = <<>>
                               THEN <<>> ELSE parseFromString(result[t].text))
      /\ Includes(response[t], TotpCommandCancelled) =>
           (pc[t] = "done" /\ value[t] = [kind |-> "records", recs |-> <<>>])
      /\ pc[t] # "done" => value[t] = NoValue

\* listTokens has returned the one record of a listing with one row.
C14_Witness ==
  \E t \in Tasks : /\ op[t] = "listTokens" /\ pc[t] = "done"
                   /\ response[t] = RespList
                   /\ value[t] = [kind |-> "records", recs |-> << <<"b", "a">> >>]


\* C15: with the default options the device output "cmd CR LF line1 CR LF
\* CR LF line2 CR LF end-marker" (RespTable after the echoed line; a is
\* line1, b is line2) yields "line1 CR LF line2 CR LF": the end marker and
\* the blank line are removed and every other line terminator is kept.
C15_SanitizeExample ==
  \A t \in Tasks :
    (Returned(t) /\ response[t] = RespTable /\ opts[t] = executeCommandDefaultOptions)
      => result[t] = [kind |-> "string", text |-> <<"a", "CR", "LF", "b", "CR", "LF">>]


Acquiring(t) == pc[t] \in {"poll", "poll_delay", "open", "open_delay",
                           "probe", "probe_close", "probe_delay"}
NeedsPort(t) == pc[t] \in {"wfd_call", "ex_write", "ex_echo", "ex_main", "ex_reread"}

\* C16: a port whose probe failed is closed before discovery runs again, and
\* is never stored nor given the 'close' listener; a port whose open failed
\* is dropped without being stored.
C16_FailedPortsDiscarded ==
  /\ \A t \in Tasks :
       /\ pc[t] \in {"open_delay", "probe_delay", "poll", "poll_delay"} => sp[t] = 0
       /\ pc[t] \in {"open", "probe", "probe_close"} =>
            (sp[t] # 0 /\ sp[t] # serialPort /\ sp[t] \notin observed)
       /\ pc[t] = "open" => sp[t] \notin ports
  /\ \A p \in ports :
       \/ p = serialPort
       \/ \E t \in Tasks : sp[t] = p /\ pc[t] \in {"probe", "probe_close"}
  /\ observed \subseteq {serialPort}

\* After an open failure and a probe failure discovery runs again: no port
\* is open, held or observed.
C16_Witness ==
  \E t \in Tasks : /\ pc[t] = "poll" /\ acq[t].openFails = 1 /\ acq[t].probeFails = 1
                   /\ ports = {} /\ observed = {} /\ serialPort = 0 /\ sp[t] = 0

\* C17: a held transport was opened, passed its probe and has not closed;
\* connected has been emitted for it, and connected is emitted only for the
\* port that is stored as the held one in the same step.
C17_HeldIsLiveAndAnnounced ==
  /\ [](serialPort # 0 =>
          /\ serialPort \in ports /\ serialPort \in observed
          /\ portPath[serialPort] # NoPath)
  /\ [][serialPort' # serialPort =>
          \/ serialPort' = 0
          \/ \E t \in Tasks : /\ pc[t] = "probe" /\ serialPort' = sp[t]
                              /\ acq'[t].connected = acq[t].connected + 1]_vars
  /\ [][\A t \in Tasks :
          acq'[t].connected > acq[t].connected =>
            /\ pc[t] = "probe" /\ sp[t] \in ports
            /\ serialPort' = sp[t] /\ serialPort' \in ports' /\ serialPort' \in observed'
            /\ acq'[t].connected = 1
            /\ acq'[t].opens = Fails(t) + 1]_vars

\* waitForDevice has returned with the port it opened, probed and announced.
C17_Witness ==
  \E t \in Tasks : /\ op[t] = "waitForDevice" /\ pc[t] = "done"
                   /\ acq[t].connected = 1 /\ acq[t].probeFails >= 1
                   /\ serialPort \in ports /\ serialPort \in observed

\* C18: a call that needs a transport while one is held uses the held one
\* and changes nothing of the session: no connecting, no connected, no
\* discovery, no open, no probe; waitForDevice with a held transport only
\* returns, without writing a command.
C18_HeldTransportReused ==
  [][\A t \in Tasks :
       (NeedsPort(t) /\ serialPort # 0 /\ pc'[t] # pc[t]) =>
         /\ ~Acquiring(t)'
         /\ serialPort' = serialPort /\ ports' = ports /\ observed' = observed
         /\ acq'[t] = acq[t] /\ sp' = sp /\ portPath' = portPath
         /\ pc[t] = "wfd_call" => (pc'[t] = "done" /\ stat' = stat /\ err' = err)]_vars

\* waitForDevice was called with a held transport and has returned: nothing
\* was emitted or written.
C18_Witness ==
  \E t \in Tasks : /\ op[t] = "waitForDevice" /\ pc[t] = "done"
                   /\ serialPort \in ports
                   /\ acq[t] = NoAcq /\ stat[t] = NoStat


\* C19: when calls that need a transport overlap, the 'close' listener of
\* one port never clears a held reference to another port that is still
\* open, and every open port is the held one, or one that #getSerialPort is
\* still probing or close() is closing.
C19_NoStrayClearNoLeak ==
  /\ [](\A p \in ports :
          \/ p = serialPort
          \/ \E t \in Tasks : sp[t] = p /\ pc[t] \in {"probe", "probe_close"}
          \/ \E t \in Tasks : closing[t] = p /\ pc[t] = "cl_closing")
  /\ [][\A p \in ports :
          (p \notin ports' /\ serialPort # 0 /\ serialPort # p /\ serialPort \in ports')
            => serialPort' = serialPort]_vars

====
